---- MODULE Spec2Model ----
(***************************************************************************)
(* CourseLens: the routing coordinator (RootAgent), the slot-filling       *)
(* dialogue manager (InstructorAgentHandler) and the agents they call.     *)
(*                                                                         *)
(* Python values are encoded as pairs <<type, payload>>: the payload of a  *)
(* str is the sequence of its fragments (so "" is the empty sequence and    *)
(* an f-string is the concatenation of the fragments of its parts).        *)
(***************************************************************************)
EXTENDS Integers, Sequences, FiniteSets, TLC

None == <<"NoneType", <<>>>>
Absent == <<"absent", <<>>>>
EmptyStr == <<"str", <<>>>>
Str(s) == <<"str", <<s>>>>
Text(frags) == <<"str", frags>>

IsStr(v) == v[1] = "str"

\* bool(v) for the values the model passes around
Truthy(v) == v[1] \notin {"NoneType", "absent"} /\ v[2] # <<>>

\* the fragments an f-string inserts for {v}
Fmt(v) == IF v[1] = "str" THEN v[2] ELSE IF v[1] = "NoneType" THEN <<"None">> ELSE <<v[1]>>

Contains(v, frags) == \E i \in 0..(Len(v[2]) - Len(frags)) : SubSeq(v[2], i + 1, i + Len(frags)) = frags

\* ------------------------------------------------------------------------
\* Inputs of the instructor flow
\* ------------------------------------------------------------------------
ProfessorNames == {None, EmptyStr, Str("Richard Sutton"), Str("Andrew Ng")}
Universities == {None, EmptyStr, Str("University of Alberta"), Str("Stanford University")}
Questions == {None, EmptyStr, Str("ratings?"), Str("teaching style?")}

\* what the scrape of RateMyProfessors gives analyze_instructor
ScrapeOutcomes == {"profile", "error_flag"}
\* what the Classifier Gateway does with the answer-generation prompt
\* ("interrupt" is a BaseException, which no except clause here catches)
GatewayOutcomes == {"text", "no_text", "fault", "quota_fault", "interrupt"}
\* the gateway is not reached after an error-flagged scrape
AnalysisOutcomes == {<<"error_flag", "unused">>} \cup {<<"profile", g>> : g \in GatewayOutcomes}
NoAnalysis == <<"error_flag", "unused">>

\* the pending fields of the dialogue manager, and hq, the handle_query call
\* made by the latest step (called is FALSE when that step made none)
VARIABLES pending_professor, pending_university, pending_question, hq

\* the clock (time.time(), in seconds) and InstructorAgent.last_request_time;
\* the clock moves when _wait_for_rate_limit sleeps and between two calls
\* (Tick), and a call of a gateway returns in the second it was made
VARIABLES now, instructor_last_request_time

vars == <<pending_professor, pending_university, pending_question, hq,
          now, instructor_last_request_time>>

\* ------------------------------------------------------------------------
\* _wait_for_rate_limit (the same code in RootAgent, UniversalCourseAgent
\* and InstructorAgent)
\* ------------------------------------------------------------------------
min_request_interval == 12

_wait_for_rate_limit_nosleep(time, last_request_time) == time

\* the clock when _wait_for_rate_limit returns, which is also the value it
\* stores in last_request_time
_wait_for_rate_limit(time, last_request_time) ==
    IF time - last_request_time < min_request_interval
    THEN time + (min_request_interval - (time - last_request_time))
    ELSE time

\* ------------------------------------------------------------------------
\* InstructorAgent.analyze_instructor
\* ------------------------------------------------------------------------
ScrapeError(professor_name) ==
    <<"Could not find any professor profiles in search results for '">> \o Fmt(professor_name) \o <<"'.">>

NotFoundMessage_bare(professor_name, university) ==
    Text(<<"I couldn't find information about Professor ">> \o Fmt(professor_name)
         \o <<" at ">> \o Fmt(university) \o <<" on RateMyProfessors. ">>
         \o ScrapeError(professor_name))

\* lines 135-144
NotFoundMessage(professor_name, university) ==
    Text(<<"I couldn't find information about Professor ">> \o Fmt(professor_name)
         \o <<" at ">> \o Fmt(university) \o <<" on RateMyProfessors. ">>
         \o ScrapeError(professor_name)
         \o <<"This could mean:",
              "- The professor is not listed on RateMyProfessors",
              "- The professor has no profile or ratings yet",
              "- The name/university combination doesn't match available profiles",
              "Try providing:",
              "- A different spelling of the name",
              "- A more specific university name",
              "- The direct RateMyProfessors profile URL if you have it">>)

GatewayFaultText(gw) == IF gw = "quota_fault" THEN "429 RESOURCE_EXHAUSTED quota" ELSE "503 UNAVAILABLE"

\* time is the clock at the call and last_request_time the agent's field;
\* the result carries both as the call leaves them
analyze_instructor(professor_name, question, university, scrape, gw, time, last_request_time) ==
    IF scrape = "error_flag"
    THEN [raised |-> FALSE, gateway_called |-> FALSE,
          text |-> NotFoundMessage(professor_name, university),
          time |-> time, last_request_time |-> last_request_time]
    ELSE LET at == _wait_for_rate_limit(time, last_request_time)
             called == [raised |-> FALSE, gateway_called |-> TRUE, text |-> Absent,
                        time |-> at, last_request_time |-> at]
         IN CASE gw = "text" -> [called EXCEPT !.text = Str("<generated answer>")]
              [] gw = "no_text" -> [called EXCEPT !.text = None]
              [] gw \in {"fault", "quota_fault"} ->
                   [called EXCEPT !.text = Text(<<"Error analyzing instructor: ", GatewayFaultText(gw)>>)]
              [] OTHER -> [called EXCEPT !.raised = TRUE]

\* ------------------------------------------------------------------------
\* InstructorAgentHandler
\* ------------------------------------------------------------------------
_request_both_details_bare == Text(<<"What professor and university are you looking for?">>)

_request_both_details ==
    Text(<<"I need:", "1. The professor's full name", "2. The university name",
           "Example: \"Dr. John Smith at University of Alberta\"",
           "What professor and university are you looking for?">>)

_request_university_for_professor_both(professor_name, question) == _request_both_details

_request_university_for_professor(professor_name, question) ==
    Text(<<"I can help you with information about Professor ">> \o Fmt(professor_name)
         \o <<"Which university does Professor ">> \o Fmt(professor_name) \o <<" teach at?",
              "Example: \"University of Alberta\" or \"University of Calgary\"",
              "Please provide the university name:">>)

_request_professor_for_university_both(university, question) == _request_both_details

_request_professor_for_university(university, question) ==
    Text(<<"I can help you find professor information at ">> \o Fmt(university)
         \o <<"Which professor are you asking about?",
              "Please provide the professor's full name:">>)

ClearedPending_keep(pp, pu, pq) == [professor |-> pp, university |-> pu, question |-> None]

\* the pending fields _search_and_analyze leaves behind before it calls
\* analyze_instructor
ClearedPending(pp, pu, pq) == [professor |-> None, university |-> None, question |-> None]

_search_and_analyze(pp, pu, pq, professor_name, question, university, scrape, gw, time, last) ==
    LET cleared == ClearedPending(pp, pu, pq)
        res == analyze_instructor(professor_name, question, university, scrape, gw, time, last)
    IN [pending |-> cleared,
        dispatched |-> TRUE,
        a_professor |-> professor_name, a_question |-> question, a_university |-> university,
        at_analyze |-> cleared,
        clarify |-> "none",
        raised |-> res.raised,
        gateway_called |-> res.gateway_called,
        response |-> res.text,
        time |-> res.time,
        last_request_time |-> res.last_request_time]

NoDispatch_called(pp, pu, pq, clarify, response, time, last) ==
    [pending |-> [professor |-> pp, university |-> pu, question |-> pq],
     dispatched |-> FALSE,
     a_professor |-> Absent, a_question |-> Absent, a_university |-> Absent,
     at_analyze |-> [professor |-> Absent, university |-> Absent, question |-> Absent],
     clarify |-> clarify,
     raised |-> FALSE,
     gateway_called |-> TRUE,
     response |-> response,
     time |-> time,
     last_request_time |-> last]

\* a return of handle_query without a call of analyze_instructor
NoDispatch(pp, pu, pq, clarify, response, time, last) ==
    [pending |-> [professor |-> pp, university |-> pu, question |-> pq],
     dispatched |-> FALSE,
     a_professor |-> Absent, a_question |-> Absent, a_university |-> Absent,
     at_analyze |-> [professor |-> Absent, university |-> Absent, question |-> Absent],
     clarify |-> clarify,
     raised |-> FALSE,
     gateway_called |-> FALSE,
     response |-> response,
     time |-> time,
     last_request_time |-> last]

MergeProfessor_overwrite(pp, professor_name) == IF Truthy(professor_name) THEN professor_name ELSE pp

\* the merge of the supplied slots into the pending ones (lines 197-200)
MergeProfessor(pp, professor_name) == IF Truthy(professor_name) /\ ~Truthy(pp) THEN professor_name ELSE pp
MergeUniversity(pu, university) == IF Truthy(university) /\ ~Truthy(pu) THEN university ELSE pu

\* the guard of the merge block (line 196)
HasPending(pq) == Truthy(pq)

BothKnown_either(professor, university) == Truthy(professor) \/ Truthy(university)

\* the test that lets the merge block dispatch (line 203)
BothKnown(professor, university) == Truthy(professor) /\ Truthy(university)

ExtractFromQuery_ask(pp, pu, pq, professor_name, question, university, scrape, gw, time, last) ==
    NoDispatch(pp, pu, question, "both", _request_both_details, time, last)

\* the part of handle_query after the pending block (lines 206-225)
ExtractFromQuery(pp, pu, pq, professor_name, question, university, scrape, gw, time, last) ==
    IF ~Truthy(professor_name) /\ ~Truthy(university)
    THEN NoDispatch(pp, pu, question, "both", _request_both_details, time, last)
    ELSE IF Truthy(professor_name) /\ ~Truthy(university)
    THEN NoDispatch(professor_name, pu, question, "university",
                    _request_university_for_professor(professor_name, question), time, last)
    ELSE IF Truthy(university) /\ ~Truthy(professor_name)
    THEN NoDispatch(pp, university, question, "professor",
                    _request_professor_for_university(university, question), time, last)
    ELSE _search_and_analyze(pp, pu, pq, professor_name, question, university, scrape, gw,
                             time, last)

handle_query_own(pp, pu, pq, professor_name, question, university, scrape, gw, time, last) ==
    IF HasPending(pq)
    THEN LET mp == MergeProfessor(pp, professor_name)
             mu == MergeUniversity(pu, university)
         IN IF BothKnown(mp, mu)
            THEN _search_and_analyze(mp, mu, pq, mp, question, mu, scrape, gw, time, last)
            ELSE ExtractFromQuery(mp, mu, pq, professor_name, question, university, scrape, gw,
                                  time, last)
    ELSE ExtractFromQuery(pp, pu, pq, professor_name, question, university, scrape, gw,
                          time, last)

\* InstructorAgentHandler.handle_query
handle_query(pp, pu, pq, professor_name, question, university, scrape, gw, time, last) ==
    IF HasPending(pq)
    THEN LET mp == MergeProfessor(pp, professor_name)
             mu == MergeUniversity(pu, university)
         IN IF BothKnown(mp, mu)
            THEN _search_and_analyze(mp, mu, pq, mp, pq, mu, scrape, gw, time, last)
            ELSE ExtractFromQuery(mp, mu, pq, professor_name, question, university, scrape, gw,
                                  time, last)
    ELSE ExtractFromQuery(pp, pu, pq, professor_name, question, university, scrape, gw,
                          time, last)

\* ------------------------------------------------------------------------
\* Classifier Gateway responses, fence stripping and json.loads
\* ------------------------------------------------------------------------
\* a "parameters" value: kind is the Python type of the value ("absent" when
\* the decision has no such key); the four keys matter when it is a dict
NoParams ==
    [kind |-> "absent", course_code |-> Absent, professor_name |-> Absent,
     university |-> Absent, question |-> Absent]
EmptyDict == [NoParams EXCEPT !.kind = "dict"]
NullParams == [NoParams EXCEPT !.kind = "NoneType"]
StrParams == [NoParams EXCEPT !.kind = "str"]
CourseParams(course_code, question) ==
    [EmptyDict EXCEPT !.course_code = course_code, !.question = question]
InstructorParams(professor_name, university, question) ==
    [EmptyDict EXCEPT !.professor_name = professor_name, !.university = university,
                      !.question = question]

\* a value json.loads can return: a dict with (some of) the four decision
\* keys, or a value of another type
JObject(reasoning, agent_to_call, parameters, direct_response) ==
    [jtype |-> "dict", reasoning |-> reasoning, agent_to_call |-> agent_to_call,
     parameters |-> parameters, direct_response |-> direct_response]
JOther(t) ==
    [jtype |-> t, reasoning |-> Absent, agent_to_call |-> Absent,
     parameters |-> NoParams, direct_response |-> Absent]
NoValue == JOther("absent")

\* a response text is a sequence of tokens: a JSON value, a markdown code
\* fence with the json tag (fence_json) or without it (fence), or prose
\* that is no JSON
Value(v) == [tok |-> "value", val |-> v]
FenceJson == [tok |-> "fence_json", val |-> NoValue]
Fence == [tok |-> "fence", val |-> NoValue]
Prose == [tok |-> "prose", val |-> NoValue]
JsonWord == [tok |-> "json", val |-> NoValue]

Remove(tokens, t) == SelectSeq(tokens, LAMBDA x : x.tok # t)

\* replace of the bare fence when the text does not start with the json
\* fence: the fences go, and what is left of a later json fence is the
\* word json
RemovePlainFences(tokens) ==
    LET kept == Remove(tokens, "fence")
    IN [i \in DOMAIN kept |-> IF kept[i].tok = "fence_json" THEN JsonWord ELSE kept[i]]

\* lines 211-214
StripFences(tokens) ==
    IF tokens # <<>> /\ tokens[1].tok = "fence_json"
    THEN Remove(Remove(tokens, "fence_json"), "fence")
    ELSE IF tokens # <<>> /\ tokens[1].tok = "fence"
    THEN RemovePlainFences(tokens)
    ELSE tokens

JsonLoads_lenient(tokens) ==
    LET values == SelectSeq(tokens, LAMBDA x : x.tok = "value")
    IN IF values # <<>> THEN [ok |-> TRUE, value |-> values[1].val]
       ELSE [ok |-> FALSE, value |-> NoValue]

\* json.loads: the text must be exactly one JSON value
JsonLoads(tokens) ==
    IF Len(tokens) = 1 /\ tokens[1].tok = "value"
    THEN [ok |-> TRUE, value |-> tokens[1].val]
    ELSE [ok |-> FALSE, value |-> NoValue]

\* what the gateway call of route_query can do
GatewayFault(exc, msg) == [kind |-> "fault", exc |-> exc, msg |-> msg, tokens |-> <<>>]
GatewayNoText == [kind |-> "no_text", exc |-> "none", msg |-> "", tokens |-> <<>>]
GatewayText(tokens) == [kind |-> "text", exc |-> "none", msg |-> "", tokens |-> tokens]

\* ------------------------------------------------------------------------
\* RootAgent.route_query
\* ------------------------------------------------------------------------
Fallback_coded(user_query) ==
    JObject(Str("Fallback routing"), Str("CourseAgent"),
            [EmptyDict EXCEPT !.course_code = Str("CMPUT 174"), !.question = user_query], None)

\* lines 224-229
Fallback(user_query) ==
    JObject(Str("Fallback routing"), Str("CourseAgent"),
            [EmptyDict EXCEPT !.question = user_query], None)

ErrorDecision_silent(msg) ==
    JObject(Text(<<"Error: ", msg>>), Str("none"), EmptyDict,
            Str("I encountered an error"))

\* lines 231-236
ErrorDecision(msg) ==
    JObject(Text(<<"Error: ", msg>>), Str("none"), EmptyDict,
            Text(<<"I encountered an error: ", msg>>))

NoTextError == "'NoneType' object has no attribute 'strip'"

\* at is the clock at the gateway call, the value line 197 left in
\* last_request_time
Routed(path, decision, at) ==
    [raised |-> FALSE, path |-> path, decision |-> decision, at |-> at]
\* the except clause of line 220 reads response_text (line 222), which is
\* unbound when the JSONDecodeError came out of the gateway call itself
RouteRaised(at) == [raised |-> TRUE, path |-> "raised", decision |-> NoValue, at |-> at]

\* time is the clock at the call, last the coordinator's last_request_time
route_query(user_query, cls, time, last) ==
    LET at == _wait_for_rate_limit(time, last)
    IN CASE cls.kind = "fault" /\ cls.exc = "JSONDecodeError" -> RouteRaised(at)
         [] cls.kind = "fault" /\ cls.exc # "JSONDecodeError" ->
              Routed("error", ErrorDecision(cls.msg), at)
         [] cls.kind = "no_text" -> Routed("error", ErrorDecision(NoTextError), at)
         [] OTHER ->
              LET parsed == JsonLoads(StripFences(cls.tokens))
              IN IF parsed.ok THEN Routed("parsed", parsed.value, at)
                 ELSE Routed("fallback", Fallback(user_query), at)

\* ------------------------------------------------------------------------
\* The coordinator's state
\* ------------------------------------------------------------------------
\* the fields of RootAgent (calls[a] is sub_agents[a]['calls']), and rq and
\* ex, the route_query and execute calls made by the latest step
VARIABLES conversation_history, calls, last_action, course_cache, selected_courses, rq, ex

\* RootAgent.last_request_time, and the fields of UniversalCourseAgent:
\* its last_request_time and its conversation_history
VARIABLES root_last_request_time, course_last_request_time, course_conversation_history

rootVars == <<conversation_history, calls, last_action, course_cache, selected_courses, rq, ex,
              root_last_request_time, course_last_request_time, course_conversation_history>>

\* the interactive program (main): its phase (start, exited when start-up
\* returned, running while the loop reads lines, ended after the loop),
\* the two keys of the environment it was started with, the line read by
\* the latest step (input) and what that step showed the user (shown)
VARIABLES cli

\* the call of scrape_course_by_code made by the latest step, and the
\* classification prompt built by the latest step
VARIABLES sc, pr

allVars == <<vars, rootVars, cli, sc, pr>>

\* ------------------------------------------------------------------------
\* RootAgent._build_coordinator_prompt
\* ------------------------------------------------------------------------
recent_first(history) == SubSeq(history, 1, IF Len(history) < 6 THEN Len(history) ELSE 6)

\* self.conversation_history[-6:] (line 98)
recent(history) == SubSeq(history, IF Len(history) < 6 THEN 1 ELSE Len(history) - 5, Len(history))

\* lines 99-102: one line per turn of recent, labelled by its position
history_text(history) ==
    [i \in DOMAIN recent(history) |->
        [label |-> IF (i - 1) % 2 = 0 THEN "User" ELSE "Assistant",
         content |-> Fmt(recent(history)[i].content)]]

\* the parts of the prompt that vary: the registered agents, the context
\* block (lines 88-93), the history block and the query
_build_coordinator_prompt(user_query, agents, cache, selected, last, history) ==
    [built |-> TRUE,
     agents_info |-> agents,
     cached_courses |-> IF cache # <<>> THEN DOMAIN cache ELSE {Str("None")},
     selected_courses |-> IF selected # <<>> THEN selected ELSE <<Str("None")>>,
     last_action |-> IF Truthy(last) THEN last ELSE Str("None"),
     header |-> history # <<>>,
     history_text |-> history_text(history),
     user_query |-> user_query]

NoPrompt ==
    [built |-> FALSE, agents_info |-> {}, cached_courses |-> {}, selected_courses |-> <<>>,
     last_action |-> None, header |-> FALSE, history_text |-> <<>>, user_query |-> None]

NoScrape ==
    [called |-> FALSE, university |-> None, course_code |-> None, scrape |-> "none",
     data |-> [error |-> Absent, code |-> Absent, content |-> ""], firecrawl_called |-> FALSE]

\* ------------------------------------------------------------------------
\* CourseAgentWrapper.handle_query and UniversalCourseAgent.ask
\* ------------------------------------------------------------------------
\* str.upper on the course codes of the model
UpperFrag(f) == IF f = "cmput 174" THEN "CMPUT 174" ELSE f
Upper(v) == <<"str", [i \in DOMAIN v[2] |-> UpperFrag(v[2][i])]>>

\* str.lower on the institution keys and the typed lines of the model
LowerFrag(f) ==
    CASE f = "UAlberta" -> "ualberta"
      [] f = "MIT" -> "mit"
      [] f = "HELP" -> "help"
      [] f = "Quit" -> "quit"
      [] OTHER -> f

\* the keys of UniversalCourseScraper.university_patterns, in the order of
\* the dictionary
university_patterns == <<"ualberta", "stanford", "mit", "utoronto">>

\* a structure with the key "error"
ErrorData(error) == [error |-> error, code |-> Absent, content |-> ""]

\* UniversalCourseScraper.scrape_course: the parsed page under the code it
\* was handed, or the error of line 93 when the Scraper Gateway call fails
scrape_course(course_code, scrape) ==
    IF scrape = "ok"
    THEN [error |-> Absent, code |-> Str(course_code), content |-> "page"]
    ELSE ErrorData(Str("Error scraping course: timeout"))

\* the string of a str value
Chars(v) == IF v[2] = <<>> THEN "" ELSE v[2][1]

Configured_any(university) == TRUE

\* university.lower() in self.university_patterns (line 112)
Configured(university) ==
    \E i \in DOMAIN university_patterns : university_patterns[i] = LowerFrag(Chars(university))

\* the message of line 114
NotConfiguredMessage(university) ==
    Text(<<"University '">> \o Fmt(university) \o <<"' not configured. Available: ">>
         \o university_patterns)

\* lines 120-131: "SUBJECT NUMBER" out of the course code, "" when the code
\* has one part that does not start with letters followed by a digit
ParsedCode(course_code) ==
    CASE Chars(course_code) \in {"CMPUT 174", "cmput 174", " cmput 174 "} -> "CMPUT 174"
      [] Chars(course_code) \in {"CSC148", "csc148"} -> "CSC 148"
      [] OTHER -> ""

\* UniversalCourseScraper.scrape_course_by_code: the structure returned,
\* and whether the Scraper Gateway was called
scrape_course_by_code(university, course_code, scrape) ==
    IF ~IsStr(university)
    THEN [data |-> ErrorData(Text(<<"Error building URL: ", "object has no attribute 'lower'">>)),
          firecrawl_called |-> FALSE]
    ELSE IF ~Configured(university)
    THEN [data |-> ErrorData(NotConfiguredMessage(university)), firecrawl_called |-> FALSE]
    ELSE IF ~IsStr(course_code)
    THEN [data |-> ErrorData(Text(<<"Error building URL: ", "object has no attribute 'strip'">>)),
          firecrawl_called |-> FALSE]
    ELSE IF ParsedCode(course_code) = ""
    THEN [data |-> ErrorData(Str("Invalid course code format")), firecrawl_called |-> FALSE]
    ELSE [data |-> scrape_course(ParsedCode(course_code), scrape), firecrawl_called |-> TRUE]

\* ScraperAdapter.default_university as CourseAgent sets it
default_university == Str("ualberta")

\* ScraperAdapter.search_course: what the look-up of the course flow returns
ScrapedCourse(course_code, scrape) ==
    scrape_course_by_code(default_university, course_code, scrape).data

HasError_never(course_data) == FALSE

\* "error" in course_data
HasError(course_data) == course_data.error # Absent

RateLimitMessage == Str("Rate limit exceeded. Wait 1 minute and try again.")

\* the entry ask stores in the agent's conversation_history (lines 190-194)
HistoryEntry(question, answer, course_ref) ==
    [question |-> question, answer |-> answer, course |-> course_ref]

\* UniversalCourseAgent.ask; the structure it is handed here is never empty
\* (a scrape result always carries a code or an error), so the test of
\* line 156 does not fire. time is the clock at the call, last and history
\* the agent's last_request_time and conversation_history
ask(question, course_data, course_ref, gw, time, last, history) ==
    IF HasError(course_data)
    THEN [gateway_called |-> FALSE,
          text |-> Text(<<"Error: ">> \o Fmt(course_data.error)
                        \o <<"Please check the university key and course code.">>),
          time |-> time, last_request_time |-> last, history |-> history]
    ELSE LET at == _wait_for_rate_limit(time, last)
             called == [gateway_called |-> TRUE, text |-> Absent,
                        time |-> at, last_request_time |-> at, history |-> history]
             answered(answer) ==
                 [called EXCEPT !.text = answer,
                                !.history = Append(history, HistoryEntry(question, answer, course_ref))]
         IN CASE gw = "text" -> answered(Str("<generated course answer>"))
              [] gw = "no_text" -> answered(None)
              [] gw = "quota_fault" -> [called EXCEPT !.text = RateLimitMessage]
              [] OTHER -> [called EXCEPT !.text = Text(<<"Error: ", GatewayFaultText(gw)>>)]

RequiredMessage == Str("Error: course_code and question are required")

\* what a call of the wrapper leaves: its outcome, the coordinator's cache
\* and selected_courses, the data handed to ask, and the agent's fields
CourseResult(raised, exc, response, cache, selected, scrape_called, course_data, answer) ==
    [raised |-> raised, exc |-> exc, response |-> response, cache |-> cache,
     selected |-> selected, scrape_called |-> scrape_called,
     asked |-> answer.asked, course_data |-> course_data,
     gateway_called |-> answer.gateway_called,
     time |-> answer.time, last_request_time |-> answer.last_request_time,
     history |-> answer.history]

\* ask was not reached
NotAsked(time, last, history) ==
    [asked |-> FALSE, gateway_called |-> FALSE, text |-> Absent,
     time |-> time, last_request_time |-> last, history |-> history]

\* the structure with no key at all, which is falsy
NoCourseData == [error |-> Absent, code |-> Absent, content |-> ""]

CacheKey_asis(course_code) == course_code

\* the key of the lookup (lines 345, 347) and of the write (lines 355-357)
CacheKey(course_code) == Upper(course_code)

CacheHit_never(key, cache) == FALSE

\* line 345
CacheHit(key, cache) == key \in DOMAIN cache

Store_drop(cache, key, course_data) == cache

\* line 355
Store(cache, key, course_data) ==
    [k \in DOMAIN cache \cup {key} |-> IF k = key THEN course_data ELSE cache[k]]

Cacheable_any(course_data) == TRUE

\* line 354
Cacheable(course_data) == course_data # NoCourseData /\ ~HasError(course_data)

InSeq(x, s) == \E i \in DOMAIN s : s[i] = x

\* CourseAgentWrapper.handle_query
course_handle_query(cache, selected, course_code, question, scrape, gw, time, last, history) ==
    IF ~Truthy(course_code) \/ ~Truthy(question)
    THEN CourseResult(FALSE, "", RequiredMessage, cache, selected, FALSE, NoCourseData,
                      NotAsked(time, last, history))
    ELSE IF ~IsStr(course_code)
    THEN CourseResult(TRUE, "object has no attribute 'upper'", Absent, cache, selected, FALSE,
                      NoCourseData, NotAsked(time, last, history))
    ELSE LET key == CacheKey(course_code)
             hit == CacheHit(key, cache)
             course_data == IF hit THEN cache[key] ELSE ScrapedCourse(course_code, scrape)
             store == ~hit /\ Cacheable(course_data)
             cache2 == IF store THEN Store(cache, key, course_data) ELSE cache
             selected2 == IF store /\ ~InSeq(key, selected) THEN Append(selected, key) ELSE selected
             answer == ask(question, course_data, course_code, gw, time, last, history)
         IN CourseResult(FALSE, "", answer.text, cache2, selected2, ~hit, course_data,
                         [asked |-> TRUE, gateway_called |-> answer.gateway_called,
                          text |-> answer.text, time |-> answer.time,
                          last_request_time |-> answer.last_request_time,
                          history |-> answer.history])

\* ------------------------------------------------------------------------
\* RootAgent.execute
\* ------------------------------------------------------------------------
StaticFallback == Str("I'm not sure how to help with that. Try asking about a specific course.")

\* dict.get(key, default)
Get(v, default) == IF v = Absent THEN default ELSE v

\* a keyword parameter that was not passed takes its default, None
Arg(v) == IF v = Absent THEN None ELSE v

Hashable(v) == v[1] \notin {"list", "dict"}

IsRegistered(agent_name) ==
    IsStr(agent_name) /\ Len(agent_name[2]) = 1 /\ agent_name[2][1] \in DOMAIN calls

UserTurn(content) == [role |-> "user", content |-> content]
AssistantTurn(content) == [role |-> "assistant", content |-> content]

CurPending ==
    [professor |-> pending_professor, university |-> pending_university, question |-> pending_question]

\* a step that calls no gateway has no call time
NoTime == -1

\* the state an execute call leaves when route_query raises: the
\* classification call was made at the time at, and nothing else changed
Unchanged(at) ==
    [raised |-> TRUE, response |-> Absent, agent |-> "none",
     history |-> conversation_history, calls |-> calls, last_action |-> last_action,
     pending |-> CurPending, cache |-> course_cache, selected |-> selected_courses,
     hres |-> NoDispatch(None, None, None, "none", Absent, 0, 0), hcalled |-> FALSE,
     scrape_called |-> FALSE, answer_called |-> FALSE,
     asked |-> FALSE, course_data |-> NoCourseData,
     time |-> at, root_last |-> at, class_at |-> at, answer_at |-> NoTime,
     course_last |-> course_last_request_time,
     instructor_last |-> instructor_last_request_time,
     course_history |-> course_conversation_history]

Returns(st, response) ==
    [st EXCEPT !.raised = FALSE, !.response = response,
               !.history = Append(st.history, AssistantTurn(response))]

HandlerError_anonymous(name, exc) == Text(<<"Error calling agent: ", exc>>)

\* line 285
HandlerError(name, exc) == Text(<<"Error calling ", name, ": ", exc>>)

Counted_twice(c, name) == [c EXCEPT ![name] = @ + 2]

\* line 278
Counted(c, name) == [c EXCEPT ![name] = @ + 1]

\* lines 270-285: the call of a registered agent
CallAgent(st, name, decision, scrape, gw) ==
    LET counted == [st EXCEPT !.agent = name, !.calls = Counted(calls, name)]
        params == IF decision.parameters.kind = "absent" THEN EmptyDict ELSE decision.parameters
    IN IF params.kind # "dict"
       THEN Returns(counted, HandlerError(name, "argument after ** must be a mapping"))
       ELSE IF name = "InstructorAgent"
       THEN LET h == handle_query(pending_professor, pending_university, pending_question,
                                  Arg(params.professor_name), Arg(params.question),
                                  Arg(params.university),
                                  IF scrape = "ok" THEN "profile" ELSE scrape, gw,
                                  st.time, instructor_last_request_time)
                after == [counted EXCEPT !.pending = h.pending, !.hres = h, !.hcalled = TRUE,
                                         !.scrape_called = h.dispatched,
                                         !.answer_called = h.gateway_called,
                                         !.time = h.time,
                                         !.instructor_last = h.last_request_time,
                                         !.answer_at = IF h.gateway_called THEN h.time ELSE NoTime]
            IN IF h.raised THEN after
               ELSE Returns([after EXCEPT !.last_action = Text(<<"Called ", name>>)], h.response)
       ELSE LET c == course_handle_query(course_cache, selected_courses,
                                         Arg(params.course_code), Arg(params.question), scrape, gw,
                                         st.time, course_last_request_time,
                                         course_conversation_history)
                after == [counted EXCEPT !.cache = c.cache, !.selected = c.selected,
                                         !.scrape_called = c.scrape_called,
                                         !.answer_called = c.gateway_called,
                                         !.asked = c.asked, !.course_data = c.course_data,
                                         !.time = c.time,
                                         !.course_last = c.last_request_time,
                                         !.course_history = c.history,
                                         !.answer_at = IF c.gateway_called THEN c.time ELSE NoTime]
            IN IF c.raised THEN Returns(after, HandlerError(name, c.exc))
               ELSE Returns([after EXCEPT !.last_action = Text(<<"Called ", name>>)], c.response)

\* lines 251-293; time is the clock when execute is called
execute(user_query, cls, scrape, gw, time) ==
    LET route == route_query(user_query, cls, time, root_last_request_time)
        decision == route.decision
    IN IF route.raised THEN Unchanged(route.at)
       ELSE IF decision.jtype # "dict" THEN Unchanged(route.at)
       ELSE LET agent_name == Get(decision.agent_to_call, Str("none"))
                st == [Unchanged(route.at) EXCEPT
                           !.history = Append(conversation_history, UserTurn(user_query))]
            IN IF ~Hashable(agent_name) THEN st
               ELSE IF agent_name = Str("none") \/ ~IsRegistered(agent_name)
               THEN Returns(st, Get(decision.direct_response, StaticFallback))
               ELSE CallAgent(st, agent_name[2][1], decision, scrape, gw)

NoCall ==
    [called |-> FALSE,
     professor_name |-> Absent, question |-> Absent, university |-> Absent,
     scrape |-> "none", gw |-> "none",
     pre |-> [professor |-> None, university |-> None, question |-> None],
     res |-> NoDispatch(None, None, None, "none", Absent, 0, 0)]

NoRoute ==
    [called |-> FALSE, user_query |-> Absent, cls |-> GatewayNoText, res |-> RouteRaised(0)]

\* class_at and answer_at are the times of the two gateway calls of the
\* turn, course_data the structure handed to ask when asked is TRUE
NoExec ==
    [called |-> FALSE, user_query |-> Absent, raised |-> FALSE, response |-> Absent,
     agent |-> "none", pre_len |-> 0, scrape_called |-> FALSE, answer_called |-> FALSE,
     asked |-> FALSE, course_data |-> NoCourseData,
     class_at |-> NoTime, answer_at |-> NoTime, scrape |-> "none", gw |-> "none"]

\* ------------------------------------------------------------------------
\* Bounds and inputs
\* ------------------------------------------------------------------------
\* execute is not called once the history holds more than MaxHistory - 2 turns
MaxHistory == 4
\* nor once an agent has been called MaxCalls times
MaxCalls == 2
\* no call starts and no time passes once the clock has reached MaxTime
MaxTime == 24

\* the clock at start-up: time.time() is far more than the cooldown away
\* from the 0 that last_request_time starts with
StartTime == min_request_interval

\* the seconds that pass in one step of the clock (the user typing)
TickSeconds == 6

Queries == {Str("What is CMPUT 174 about?"), Str("Tell me about Richard Sutton")}

AgentValues ==
    {Absent, None, Str("none"), Str("CourseAgent"), Str("InstructorAgent"), Str("GradesAgent"),
     <<"list", <<"CourseAgent">>>>, <<"int", <<"1">>>>}
DirectValues == {Absent, None, EmptyStr, Str("Hello! Ask me about a course.")}
ParamValues ==
    {NoParams, NullParams, StrParams, EmptyDict,
     CourseParams(Str("cmput 174"), Str("What is it about?")),
     InstructorParams(Str("Richard Sutton"), None, Str("ratings?"))}
NonObjects == {JOther("list"), JOther("str"), JOther("NoneType"), JOther("int")}

\* every shape of decision the classifier can put in its text
RouteValues ==
    {JObject(Str("why"), a, p, d) : a \in AgentValues, p \in ParamValues, d \in DirectValues}
        \cup NonObjects

Conforming ==
    JObject(Str("why"), Str("InstructorAgent"),
            InstructorParams(Str("Richard Sutton"), Str("University of Alberta"), Str("ratings?")),
            None)

RouteTexts ==
    {<<Value(v)>> : v \in RouteValues}
        \cup {<<FenceJson, Value(Conforming), Fence>>, <<Fence, Value(Conforming), Fence>>,
              <<Fence, Value(Conforming), FenceJson>>, <<Prose, Value(Conforming)>>,
              <<Value(Conforming), Fence>>, <<Prose, FenceJson, Value(Conforming), Fence>>,
              <<FenceJson, Prose, Fence>>, <<FenceJson, Fence>>, <<Fence, Fence>>,
              <<Prose>>, <<>>}

GatewayFaults ==
    {GatewayFault("ServerError", "503 UNAVAILABLE"),
     GatewayFault("ClientError", "429 RESOURCE_EXHAUSTED quota"),
     GatewayFault("JSONDecodeError", "Expecting value: line 1 column 1 (char 0)")}

RouteOutcomes == {GatewayText(t) : t \in RouteTexts} \cup GatewayFaults \cup {GatewayNoText}

\* the decisions of the turns that execute is driven with
ExecValues ==
    {JObject(Str("why"), Str("none"), EmptyDict, Str("Hello! Ask me about a course.")),
     JObject(Str("why"), Str("none"), EmptyDict, None),
     JObject(Str("why"), Str("GradesAgent"), NoParams, EmptyStr),
     JObject(Absent, Absent, NoParams, Absent),
     JObject(Str("why"), <<"list", <<"CourseAgent">>>>, NoParams, Absent),
     JObject(Str("why"), Str("CourseAgent"), NullParams, None),
     JObject(Str("why"), Str("InstructorAgent"), StrParams, None),
     JObject(Str("why"), Str("CourseAgent"),
             CourseParams(Str("cmput 174"), Str("What is it about?")), None),
     JObject(Str("why"), Str("CourseAgent"),
             CourseParams(Str("CMPUT 174"), Str("What is it about?")), None),
     JObject(Str("why"), Str("CourseAgent"),
             CourseParams(<<"int", <<"174">>>>, Str("What is it about?")), None),
     JObject(Str("why"), Str("InstructorAgent"),
             InstructorParams(Str("Richard Sutton"), None, Str("ratings?")), None),
     JObject(Str("why"), Str("InstructorAgent"),
             InstructorParams(None, Str("University of Alberta"), None), None),
     Conforming,
     JOther("list")}

ExecOutcomes ==
    {GatewayText(<<Value(v)>>) : v \in ExecValues}
        \cup {GatewayText(<<FenceJson, Value(Conforming), Fence>>), GatewayText(<<Prose>>)}
        \cup GatewayFaults \cup {GatewayNoText}

\* the scrape and the answer generation of a turn; the interrupt of a turn
\* ends the interactive loop and is left to the dialogue manager's own model
ExecScrapes == {"ok", "error_flag"}
ExecGateways == {"text", "no_text", "fault", "quota_fault"}

\* ------------------------------------------------------------------------
\* Initial state and actions
\* ------------------------------------------------------------------------
Init ==
    /\ pending_professor = None
    /\ pending_university = None
    /\ pending_question = None
    /\ hq = NoCall
    /\ now = StartTime
    /\ instructor_last_request_time = 0
    /\ root_last_request_time = 0
    /\ course_last_request_time = 0
    /\ course_conversation_history = <<>>
    /\ conversation_history = <<>>
    /\ calls = [a \in {"CourseAgent", "InstructorAgent"} |-> 0]
    /\ last_action = None
    /\ course_cache = <<>>
    /\ selected_courses = <<>>
    /\ rq = NoRoute
    /\ ex = NoExec
    /\ sc = NoScrape
    /\ pr = NoPrompt
    /\ cli = [phase |-> "running", gemini_key |-> TRUE, firecrawl_key |-> TRUE,
              input |-> "none", shown |-> "none"]

\* one call of InstructorAgentHandler.handle_query
HandleQuery ==
    /\ now <= MaxTime
    /\ \E professor_name \in ProfessorNames, question \in Questions, university \in Universities :
        \E out \in IF handle_query(pending_professor, pending_university, pending_question,
                                   professor_name, question, university,
                                   NoAnalysis[1], NoAnalysis[2], 0, 0).dispatched
                    THEN AnalysisOutcomes ELSE {NoAnalysis} :
        \E res \in {handle_query(pending_professor, pending_university, pending_question,
                                  professor_name, question, university, out[1], out[2],
                                  now, instructor_last_request_time)} :
             /\ now' = res.time
             /\ instructor_last_request_time' = res.last_request_time
             /\ pending_professor' = res.pending.professor
             /\ pending_university' = res.pending.university
             /\ pending_question' = res.pending.question
             /\ hq' = [called |-> TRUE,
                       professor_name |-> professor_name, question |-> question,
                       university |-> university,
                       scrape |-> IF res.dispatched THEN out[1] ELSE "none",
                       gw |-> IF res.gateway_called THEN out[2] ELSE "none",
                       pre |-> CurPending,
                       res |-> res]
    /\ UNCHANGED <<rootVars, cli, sc, pr>>

\* one call of RootAgent.route_query
RouteQuery ==
    /\ now <= MaxTime
    /\ \E user_query \in Queries, cls \in RouteOutcomes :
        \E res \in {route_query(user_query, cls, now, root_last_request_time)} :
           /\ rq' = [called |-> TRUE, user_query |-> user_query, cls |-> cls, res |-> res]
           /\ now' = res.at
           /\ root_last_request_time' = res.at
           /\ pr' = _build_coordinator_prompt(user_query, DOMAIN calls, course_cache,
                                              selected_courses, last_action,
                                              conversation_history)
    /\ UNCHANGED <<sc, pending_professor, pending_university, pending_question, hq,
                   instructor_last_request_time, conversation_history, calls, last_action,
                   course_cache, selected_courses, ex, course_last_request_time,
                   course_conversation_history, cli>>

\* one call of RootAgent.execute
Execute ==
    /\ cli.phase = "running"
    /\ Len(conversation_history) + 2 <= MaxHistory
    /\ \A a \in DOMAIN calls : calls[a] < MaxCalls
    /\ now <= MaxTime
    /\ \E user_query \in Queries, cls \in ExecOutcomes :
       \E scrape \in IF execute(user_query, cls, "ok", "text", now).scrape_called
                      THEN ExecScrapes ELSE {"ok"} :
       \E gw \in IF execute(user_query, cls, scrape, "text", now).answer_called
                  THEN ExecGateways ELSE {"text"} :
       \E st \in {execute(user_query, cls, scrape, gw, now)},
          route \in {route_query(user_query, cls, now, root_last_request_time)} :
        LET params == route.decision.parameters
        IN /\ now' = st.time
           /\ root_last_request_time' = st.root_last
           /\ course_last_request_time' = st.course_last
           /\ instructor_last_request_time' = st.instructor_last
           /\ course_conversation_history' = st.course_history
           /\ conversation_history' = st.history
           /\ calls' = st.calls
           /\ last_action' = st.last_action
           /\ course_cache' = st.cache
           /\ selected_courses' = st.selected
           /\ pending_professor' = st.pending.professor
           /\ pending_university' = st.pending.university
           /\ pending_question' = st.pending.question
           /\ hq' = IF st.hcalled
                    THEN [called |-> TRUE,
                          professor_name |-> Arg(params.professor_name),
                          question |-> Arg(params.question),
                          university |-> Arg(params.university),
                          scrape |-> IF ~st.hres.dispatched THEN "none"
                                     ELSE IF scrape = "ok" THEN "profile" ELSE scrape,
                          gw |-> IF st.hres.gateway_called THEN gw ELSE "none",
                          pre |-> CurPending, res |-> st.hres]
                    ELSE NoCall
           /\ rq' = [called |-> TRUE, user_query |-> user_query, cls |-> cls,
                     res |-> route]
           /\ ex' = [called |-> TRUE, user_query |-> user_query, raised |-> st.raised,
                     response |-> st.response, agent |-> st.agent,
                     pre_len |-> Len(conversation_history),
                     scrape_called |-> st.scrape_called, answer_called |-> st.answer_called,
                     asked |-> st.asked, course_data |-> st.course_data,
                     class_at |-> st.class_at, answer_at |-> st.answer_at,
                     scrape |-> IF st.scrape_called THEN scrape ELSE "none",
                     gw |-> IF st.answer_called THEN gw ELSE "none"]
           /\ pr' = _build_coordinator_prompt(user_query, DOMAIN calls, course_cache,
                                              selected_courses, last_action,
                                              conversation_history)
           /\ cli' = [cli EXCEPT !.input = "query",
                                 !.shown = IF st.raised THEN "error" ELSE "response"]
           /\ UNCHANGED sc

ClearHistory_all ==
    /\ cli.phase = "running"
    /\ conversation_history' = <<>>
    /\ selected_courses' = <<>>
    /\ last_action' = None
    /\ course_cache' = <<>>
    /\ hq' = NoCall /\ rq' = NoRoute /\ ex' = NoExec /\ pr' = NoPrompt
    /\ UNCHANGED sc
    /\ cli' = [cli EXCEPT !.input = "clear", !.shown = "none"]
    /\ UNCHANGED <<pending_professor, pending_university, pending_question, calls,
                   now, instructor_last_request_time, root_last_request_time,
                   course_last_request_time, course_conversation_history>>

\* the command clear of the interactive loop: RootAgent.clear_history
ClearHistory ==
    /\ cli.phase = "running"
    /\ conversation_history' = <<>>
    /\ selected_courses' = <<>>
    /\ last_action' = None
    /\ hq' = NoCall /\ rq' = NoRoute /\ ex' = NoExec /\ pr' = NoPrompt
    /\ UNCHANGED sc
    /\ cli' = [cli EXCEPT !.input = "clear", !.shown = "none"]
    /\ UNCHANGED <<pending_professor, pending_university, pending_question, calls, course_cache,
                   now, instructor_last_request_time, root_last_request_time,
                   course_last_request_time, course_conversation_history>>

ClearCache_context ==
    /\ course_cache' = <<>>
    /\ selected_courses' = <<>>
    /\ hq' = NoCall /\ rq' = NoRoute /\ ex' = NoExec /\ pr' = NoPrompt
    /\ UNCHANGED sc
    /\ cli' = [cli EXCEPT !.input = "none", !.shown = "none"]
    /\ UNCHANGED <<pending_professor, pending_university, pending_question,
                   conversation_history, calls, last_action,
                   now, instructor_last_request_time, root_last_request_time,
                   course_last_request_time, course_conversation_history>>

\* RootAgent.clear_cache
ClearCache ==
    /\ course_cache' = <<>>
    /\ hq' = NoCall /\ rq' = NoRoute /\ ex' = NoExec /\ pr' = NoPrompt
    /\ UNCHANGED sc
    /\ cli' = [cli EXCEPT !.input = "none", !.shown = "none"]
    /\ UNCHANGED <<pending_professor, pending_university, pending_question,
                   conversation_history, calls, last_action, selected_courses,
                   now, instructor_last_request_time, root_last_request_time,
                   course_last_request_time, course_conversation_history>>

\* time passes between two calls
Tick ==
    /\ now < MaxTime
    /\ now' = now + TickSeconds
    /\ hq' = NoCall /\ rq' = NoRoute /\ ex' = NoExec /\ pr' = NoPrompt
    /\ UNCHANGED sc
    /\ cli' = IF cli.phase = "running"
              THEN [cli EXCEPT !.input = "none", !.shown = "none"] ELSE cli
    /\ UNCHANGED <<pending_professor, pending_university, pending_question,
                   conversation_history, calls, last_action, course_cache, selected_courses,
                   instructor_last_request_time, root_last_request_time,
                   course_last_request_time, course_conversation_history>>

\* the dialogue manager driven directly
SpecHandler == Init /\ [][HandleQuery \/ Tick]_allVars

\* route_query driven directly
SpecRoute == Init /\ [][RouteQuery \/ Tick]_allVars

Next == Execute \/ ClearHistory \/ ClearCache \/ Tick

\* ------------------------------------------------------------------------
\* scrape_course_by_code on its own
\* ------------------------------------------------------------------------
ScrapeUniversities ==
    {Str("ualberta"), Str("UAlberta"), Str("stanford"), Str("MIT"), Str("utoronto"),
     Str("harvard"), Str("University of Alberta"), Str(""), None}
ScrapeCourseCodes ==
    {Str("CMPUT 174"), Str("cmput 174"), Str(" cmput 174 "), Str("CSC148"), Str("csc148"),
     Str("174"), Str(""), None}

\* the arguments and the Scraper Gateway's outcome of the call to come
InitScrape ==
    /\ pending_professor = None
    /\ pending_university = None
    /\ pending_question = None
    /\ hq = NoCall
    /\ now = StartTime
    /\ instructor_last_request_time = 0
    /\ root_last_request_time = 0
    /\ course_last_request_time = 0
    /\ course_conversation_history = <<>>
    /\ conversation_history = <<>>
    /\ calls = [a \in {"CourseAgent", "InstructorAgent"} |-> 0]
    /\ last_action = None
    /\ course_cache = <<>>
    /\ selected_courses = <<>>
    /\ rq = NoRoute
    /\ ex = NoExec
    /\ pr = NoPrompt
    /\ cli = [phase |-> "running", gemini_key |-> TRUE, firecrawl_key |-> TRUE,
              input |-> "none", shown |-> "none"]
    /\ \E university \in ScrapeUniversities, course_code \in ScrapeCourseCodes,
          scrape \in ExecScrapes :
          sc = [NoScrape EXCEPT !.university = university, !.course_code = course_code,
                                !.scrape = scrape]

\* one call of UniversalCourseScraper.scrape_course_by_code
ScrapeCourseByCode ==
    /\ ~sc.called
    /\ \E res \in {scrape_course_by_code(sc.university, sc.course_code, sc.scrape)} :
          sc' = [sc EXCEPT !.called = TRUE, !.data = res.data,
                           !.firecrawl_called = res.firecrawl_called]
    /\ UNCHANGED <<vars, rootVars, cli, pr>>

SpecScrape == InitScrape /\ [][ScrapeCourseByCode]_allVars

\* ------------------------------------------------------------------------
\* The classification prompt over longer histories
\* ------------------------------------------------------------------------
\* the longest history the prompt is built from
MaxPromptTurns == 8

\* what the k-th entry of the log says
TurnContent(k) == Text(<<"turn", ToString(k)>>)

\* the log after turns that were all answered, the last one cut after its
\* user entry when n is odd (its execute raised)
AnsweredLog(n) ==
    [k \in 1..n |-> IF k % 2 = 1 THEN UserTurn(TurnContent(k)) ELSE AssistantTurn(TurnContent(k))]

PromptHistories == {AnsweredLog(n) : n \in 0..MaxPromptTurns}

InitPrompt ==
    /\ pending_professor = None
    /\ pending_university = None
    /\ pending_question = None
    /\ hq = NoCall
    /\ now = StartTime
    /\ instructor_last_request_time = 0
    /\ root_last_request_time = 0
    /\ course_last_request_time = 0
    /\ course_conversation_history = <<>>
    /\ conversation_history \in PromptHistories
    /\ calls = [a \in {"CourseAgent", "InstructorAgent"} |-> 0]
    /\ last_action = None
    /\ course_cache = <<>>
    /\ selected_courses = <<>>
    /\ rq = NoRoute
    /\ ex = NoExec
    /\ sc = NoScrape
    /\ pr = NoPrompt
    /\ cli = [phase |-> "running", gemini_key |-> TRUE, firecrawl_key |-> TRUE,
              input |-> "none", shown |-> "none"]

\* one call of RootAgent._build_coordinator_prompt
BuildPrompt ==
    /\ \E user_query \in Queries :
          pr' = _build_coordinator_prompt(user_query, DOMAIN calls, course_cache,
                                         selected_courses, last_action, conversation_history)
    /\ UNCHANGED <<vars, rootVars, cli, sc>>

\* the prompt built on its own and within execute, over those histories
SpecPrompt == InitPrompt /\ [][BuildPrompt \/ Execute]_allVars

\* ------------------------------------------------------------------------
\* main: start-up and the interactive loop
\* ------------------------------------------------------------------------
\* RootAgent.register_agent on the invocation counters
register_agent(c, agent_name) ==
    [a \in DOMAIN c \cup {agent_name} |-> IF a = agent_name THEN 0 ELSE c[a]]

NoAgents == [a \in {} |-> 0]

\* CourseAgent.__init__ raises ValueError without the scraping key
\* (course_agent.py lines 248-251)
CourseAgentInit(firecrawl_key) == [raised |-> ~firecrawl_key]

\* lines 89-142 of main: where start-up leaves the program, what it shows
\* and the agents it registered
Startup_main(gemini_key, firecrawl_key) ==
    IF ~gemini_key
    THEN [phase |-> "exited", shown |-> "Error: GOOGLE_API_KEY not found in .env file",
          calls |-> NoAgents]
    ELSE IF CourseAgentInit(firecrawl_key).raised
    THEN [phase |-> "exited", shown |-> "Error initializing system", calls |-> NoAgents]
    ELSE IF firecrawl_key
    THEN [phase |-> "running", shown |-> "Active Agents: CourseAgent, InstructorAgent",
          calls |-> register_agent(register_agent(NoAgents, "CourseAgent"), "InstructorAgent")]
    ELSE [phase |-> "running", shown |-> "Active Agents: CourseAgent",
          calls |-> register_agent(NoAgents, "CourseAgent")]

\* the state of the process before main runs
InitCli ==
    /\ pending_professor = None
    /\ pending_university = None
    /\ pending_question = None
    /\ hq = NoCall
    /\ now = StartTime
    /\ instructor_last_request_time = 0
    /\ root_last_request_time = 0
    /\ course_last_request_time = 0
    /\ course_conversation_history = <<>>
    /\ conversation_history = <<>>
    /\ calls = NoAgents
    /\ last_action = None
    /\ course_cache = <<>>
    /\ selected_courses = <<>>
    /\ rq = NoRoute
    /\ ex = NoExec
    /\ sc = NoScrape
    /\ pr = NoPrompt
    /\ cli = [phase |-> "start", gemini_key |-> FALSE, firecrawl_key |-> FALSE,
              input |-> "none", shown |-> "none"]

\* what the steps of main leave alone
coreVars ==
    <<pending_professor, pending_university, pending_question,
      now, instructor_last_request_time, root_last_request_time, course_last_request_time,
      course_conversation_history, conversation_history, last_action, course_cache,
      selected_courses>>

\* main up to the loop
Startup ==
    /\ cli.phase = "start"
    /\ \E gemini_key \in BOOLEAN, firecrawl_key \in BOOLEAN :
        \E m \in {Startup_main(gemini_key, firecrawl_key)} :
           /\ cli' = [phase |-> m.phase, gemini_key |-> gemini_key,
                      firecrawl_key |-> firecrawl_key, input |-> "none", shown |-> m.shown]
           /\ calls' = m.calls
    /\ UNCHANGED <<coreVars, hq, rq, ex, sc, pr>>

\* the lines typed at the prompt that are no free-text query
InputLines ==
    {"", "   ", "help", "HELP", "agents", "stats", "cache", "quit", "exit", "q", " Quit "}

\* str.strip and str.lower on those lines
Strip(line) == IF line = "   " THEN "" ELSE IF line = " Quit " THEN "Quit" ELSE line
Lower(line) == LowerFrag(line)

EndsLoop_any(cmd) == cmd # ""

\* line 155
EndsLoop(cmd) == cmd \in {"quit", "exit", "q"}

\* one pass of the loop on a line that is empty or a command other than
\* clear (lines 149-174)
CliCommand ==
    /\ cli.phase = "running"
    /\ \E line \in InputLines :
        LET cmd == Lower(Strip(line))
        IN cli' = IF Strip(line) = "" THEN [cli EXCEPT !.input = "", !.shown = "none"]
                  ELSE IF EndsLoop(cmd)
                  THEN [cli EXCEPT !.phase = "ended", !.input = cmd, !.shown = "goodbye"]
                  ELSE [cli EXCEPT !.input = cmd, !.shown = cmd]
    /\ hq' = NoCall /\ rq' = NoRoute /\ ex' = NoExec /\ pr' = NoPrompt
    /\ UNCHANGED sc
    /\ UNCHANGED <<coreVars, calls>>

\* KeyboardInterrupt while the loop reads or works on a line (lines 190-192)
CliInterrupt ==
    /\ cli.phase = "running"
    /\ cli' = [cli EXCEPT !.phase = "ended", !.input = "interrupt", !.shown = "goodbye"]
    /\ hq' = NoCall /\ rq' = NoRoute /\ ex' = NoExec /\ pr' = NoPrompt
    /\ UNCHANGED sc
    /\ UNCHANGED <<coreVars, calls>>

\* input() raises, as EOFError at the end of the input (lines 193-194)
CliInputFault ==
    /\ cli.phase = "running"
    /\ cli' = [cli EXCEPT !.input = "eof", !.shown = "error"]
    /\ hq' = NoCall /\ rq' = NoRoute /\ ex' = NoExec /\ pr' = NoPrompt
    /\ UNCHANGED sc
    /\ UNCHANGED <<coreVars, calls>>

NextCli ==
    Startup \/ Execute \/ ClearHistory \/ CliCommand \/ CliInterrupt \/ CliInputFault \/ Tick

\* the program as main runs it
SpecCli == InitCli /\ [][NextCli]_allVars

\* the coordinator as the interactive loop drives it
Spec == Init /\ [][Next]_allVars


\* ------------------------------------------------------------------------
\* Properties of the dialogue manager (checked under SpecHandler)
\* ------------------------------------------------------------------------
Dispatched == hq.called /\ hq.res.dispatched

PendingAllNone ==
    /\ pending_professor = None
    /\ pending_university = None
    /\ pending_question = None

\* C1: analyze_instructor is invoked only with a non-null, non-empty
\* professor name and a non-null, non-empty university, whatever mix of
\* null, empty and filled arguments the handle_query calls carried.
C1_DispatchNeedsBothSlots ==
    Dispatched =>
        /\ hq.res.a_professor # None /\ hq.res.a_professor # EmptyStr
        /\ hq.res.a_university # None /\ hq.res.a_university # EmptyStr

\* a dispatch completed by the merge: the call itself carried no professor
C1_Witness ==
    /\ Dispatched
    /\ ~Truthy(hq.professor_name)
    /\ Truthy(hq.pre.professor)
    /\ hq.res.a_professor = hq.pre.professor
    /\ hq.res.a_university = hq.university

\* C2: at the return of a handle_query call the three pending fields are
\* never all populated (the populated case is the non-null, non-empty one).
C2_NeverAllThreePending ==
    hq.called =>
        ~(Truthy(pending_professor) /\ Truthy(pending_university) /\ Truthy(pending_question))

\* C3: a call that dispatches has reset the three pending fields to null
\* before analyze_instructor is called, and they are null when the call
\* ends, whether analyze_instructor answers, reports an error or fails.
C3_DispatchResetsPending ==
    Dispatched =>
        /\ hq.res.at_analyze = [professor |-> None, university |-> None, question |-> None]
        /\ PendingAllNone

\* a dispatch out of a partial request during which analyze_instructor failed
C3_Witness ==
    /\ Dispatched
    /\ hq.res.raised
    /\ Truthy(hq.pre.professor)
    /\ Truthy(hq.pre.question)
    /\ PendingAllNone

SuppliesMissingSlot ==
    \/ Truthy(hq.pre.professor) /\ ~Truthy(hq.pre.university) /\ Truthy(hq.university)
    \/ Truthy(hq.pre.university) /\ ~Truthy(hq.pre.professor) /\ Truthy(hq.professor_name)

\* C4: when the handler holds a partial request, the next call that supplies
\* the missing slot dispatches in that call and leaves the handler EMPTY,
\* also when the turns that built the partial state had a null question.
C4_MissingSlotCompletes ==
    (hq.called /\ SuppliesMissingSlot) => (hq.res.dispatched /\ PendingAllNone)

\* C5: with a question pending, a pending professor (university) that is
\* already filled is never replaced by a newly supplied one: after the call
\* it holds its old value or null.
C5_NoOverwrite ==
    (hq.called /\ Truthy(hq.pre.question)) =>
        /\ hq.pre.professor # None => pending_professor \in {hq.pre.professor, None}
        /\ hq.pre.university # None => pending_university \in {hq.pre.university, None}

\* C6: analyze_instructor is never invoked with a null or empty question.
C6_DispatchNeedsQuestion ==
    Dispatched => (hq.res.a_question # None /\ hq.res.a_question # EmptyStr)

\* ------------------------------------------------------------------------
\* Properties of route_query (checked under SpecRoute)
\* ------------------------------------------------------------------------
HasToken(tokens, t) == \E i \in DOMAIN tokens : tokens[i].tok = t

\* texts that are no JSON document however the fences are taken off: they
\* hold prose, or no JSON value at all, or something after an unfenced value
TextIsNoJson ==
    /\ rq.cls.kind = "text"
    /\ \/ HasToken(rq.cls.tokens, "prose")
       \/ ~HasToken(rq.cls.tokens, "value")
       \/ (Len(rq.cls.tokens) > 1 /\ rq.cls.tokens[1].tok = "value")

\* C7: when the classifier's text does not parse as JSON, route_query does
\* not raise and returns the fallback decision: agent_to_call CourseAgent,
\* parameters {question: the raw user query}.
C7_UnparseableFallsBack ==
    (rq.called /\ TextIsNoJson) =>
        /\ ~rq.res.raised
        /\ rq.res.decision.jtype = "dict"
        /\ rq.res.decision.agent_to_call = Str("CourseAgent")
        /\ rq.res.decision.parameters = [EmptyDict EXCEPT !.question = rq.user_query]

\* prose before an otherwise conforming decision
C7_Witness ==
    /\ rq.called
    /\ rq.cls = GatewayText(<<Prose, Value(Conforming)>>)
    /\ rq.user_query = Str("Tell me about Richard Sutton")
    /\ rq.res.decision.parameters.question = Str("Tell me about Richard Sutton")
    /\ rq.res.path = "fallback"

OtherGatewayFailure ==
    \/ rq.cls.kind = "no_text"
    \/ rq.cls.kind = "fault" /\ rq.cls.exc # "JSONDecodeError"

ErrorTextOf(cls) == IF cls.kind = "no_text" THEN NoTextError ELSE cls.msg

C9_ExecuteAlwaysAnswers ==
    ex.called => (~ex.raised /\ IsStr(ex.response))

\* C10: every execute call appends exactly two entries to the history, the
\* user turn with the query and then the assistant turn with the returned
\* response, so the history has even length and alternates user, assistant.
C10_TwoEntriesPerTurn ==
    /\ ex.called =>
        /\ Len(conversation_history) = ex.pre_len + 2
        /\ conversation_history[ex.pre_len + 1] = UserTurn(ex.user_query)
        /\ conversation_history[ex.pre_len + 2] = AssistantTurn(ex.response)
    /\ Len(conversation_history) % 2 = 0
    /\ \A i \in DOMAIN conversation_history :
        conversation_history[i].role = IF i % 2 = 1 THEN "user" ELSE "assistant"

\* ------------------------------------------------------------------------
\* Properties of the rate limiters (checked under Spec)
\* ------------------------------------------------------------------------
\* a step of execute: no other step leaves ex.called TRUE
IsExecute == ex'.called /\ allVars' # allVars

Max(a, b) == IF a >= b THEN a ELSE b

\* the time of the latest gateway call the process has made, whichever
\* component made it (0 before the first call)
LastGatewayCall ==
    Max(root_last_request_time, Max(course_last_request_time, instructor_last_request_time))

C11_Step ==
    IsExecute =>
        /\ LastGatewayCall > 0 => ex'.class_at - LastGatewayCall >= min_request_interval
        /\ ex'.answer_at # NoTime => ex'.answer_at - ex'.class_at >= min_request_interval

\* C11: any two consecutive gateway calls of the process are at least the
\* cooldown of 12 seconds apart, whichever components make them: the
\* classification call of a turn comes 12 seconds or more after the latest
\* call before it, and the answer-generation call of a turn 12 seconds or
\* more after its classification call.
C11_GatewayCallsSpaced == [][C11_Step]_allVars

\* ------------------------------------------------------------------------
\* Properties of the course cache (checked under Spec)
\* ------------------------------------------------------------------------
\* C12: every entry of course_cache is a non-empty scrape result without
\* the key "error".
C12_CacheHoldsSuccesses ==
    \A k \in DOMAIN course_cache :
        course_cache[k] # NoCourseData /\ course_cache[k].error = Absent

\* the decision of the latest turn called the course handler with this code
CourseCodeOf(r) == Arg(r.res.decision.parameters.course_code)

CourseCall(r, e) ==
    /\ e.called /\ e.agent = "CourseAgent"
    /\ r.res.decision.parameters.kind = "dict"

\* a scrape without error marker, stored under the upper-cased code
C12_Witness ==
    /\ CourseCall(rq, ex) /\ ex.scrape_called
    /\ ex.course_data.error = Absent
    /\ CourseCodeOf(rq) = Str("cmput 174")
    /\ DOMAIN course_cache = {Str("CMPUT 174")}
    /\ course_cache[Str("CMPUT 174")] = ex.course_data

C13_Step ==
    (IsExecute /\ CourseCall(rq', ex')
        /\ Truthy(Arg(rq'.res.decision.parameters.question))
        /\ IsStr(CourseCodeOf(rq')) /\ Truthy(CourseCodeOf(rq'))
        /\ Upper(CourseCodeOf(rq')) \in DOMAIN course_cache)
    => /\ ~ex'.scrape_called
       /\ ex'.asked
       /\ ex'.course_data = course_cache[Upper(CourseCodeOf(rq'))]
       /\ course_cache' = course_cache

\* C13: a call of the course handler with a course code whose upper-cased
\* form is a key of course_cache does not call the Scraper Gateway, hands
\* the cached structure to answer generation and leaves the cache as it was.
C13_CacheHitSkipsScrape == [][C13_Step]_allVars

\* a turn answered from the cache
C13_Witness ==
    /\ CourseCall(rq, ex) /\ ex.asked /\ ~ex.scrape_called
    /\ Upper(CourseCodeOf(rq)) \in DOMAIN course_cache
    /\ ex.course_data = course_cache[Upper(CourseCodeOf(rq))]
    /\ ex.answer_called

\* the course handler went past its test of the parameters (line 341) with
\* a course code that is a string
Resolves(r, e) ==
    /\ CourseCall(r, e)
    /\ IsStr(CourseCodeOf(r)) /\ Truthy(CourseCodeOf(r))
    /\ Truthy(Arg(r.res.decision.parameters.question))

\* two turns in a row resolve the same course code
SameCodeTwice ==
    /\ Resolves(rq, ex)
    /\ IsExecute /\ Resolves(rq', ex')
    /\ CourseCodeOf(rq') = CourseCodeOf(rq)

AtMostOneScrape ==
    /\ ~(ex.scrape_called /\ ex'.scrape_called)
    /\ ex'.course_data = ex.course_data

\* C14 as stated: two calls of the course handler with the same course
\* code and no cache clear in between issue at most one Scraper Gateway
\* call in total, whatever the first scrape returned, and hand the same
\* structure to answer generation.
C14_ResolveTwiceAnyOutcome == [][SameCodeTwice => AtMostOneScrape]_allVars

\* C14 amended: two calls of the course handler with the same course code
\* and no cache clear in between issue at most one Scraper Gateway call in
\* total and hand the same structure to answer generation, when the
\* structure of the first call carries no error marker.
C14_ResolveTwice ==
    [][(SameCodeTwice /\ ex.course_data.error = Absent) => AtMostOneScrape]_allVars

AnsweredEntry(course_code) ==
    HistoryEntry(Str("What is it about?"), Str("<generated course answer>"), course_code)

\* the second of two answered turns on cmput 174, served from the cache
C14_Witness ==
    /\ Resolves(rq, ex) /\ ~ex.scrape_called /\ ex.asked
    /\ CourseCodeOf(rq) = Str("cmput 174")
    /\ course_conversation_history = <<AnsweredEntry(Str("cmput 174")), AnsweredEntry(Str("cmput 174"))>>
    /\ Len(conversation_history) = 4
    /\ ex.course_data = course_cache[Str("CMPUT 174")]

C15_Step ==
    (/\ Resolves(rq, ex) /\ ex.course_data.error = Absent
     /\ IsExecute /\ Resolves(rq', ex')
     /\ CourseCodeOf(rq') # CourseCodeOf(rq)
     /\ Upper(CourseCodeOf(rq')) = Upper(CourseCodeOf(rq)))
    => /\ ~ex'.scrape_called
       /\ ex'.course_data = ex.course_data
       /\ DOMAIN course_cache' = DOMAIN course_cache

\* C15: lookup and write use the upper-cased course code: after a resolve
\* of one course code that succeeded, a resolve of a code that differs from
\* it only in letter case is a cache hit on the same entry.
C15_KeysIgnoreCase == [][C15_Step]_allVars

\* cmput 174 answered from a scrape, then CMPUT 174 answered from the cache
C15_Witness ==
    /\ Resolves(rq, ex) /\ ~ex.scrape_called /\ ex.asked
    /\ CourseCodeOf(rq) = Str("CMPUT 174")
    /\ course_conversation_history = <<AnsweredEntry(Str("cmput 174")), AnsweredEntry(Str("CMPUT 174"))>>
    /\ Len(conversation_history) = 4
    /\ DOMAIN course_cache = {Str("CMPUT 174")}

ErrorExplanation(course_data) ==
    Text(<<"Error: ">> \o course_data.error[2]
         \o <<"Please check the university key and course code.">>)

C16_Step ==
    (IsExecute /\ CourseCall(rq', ex') /\ ex'.scrape_called /\ ex'.course_data.error # Absent)
    => /\ ex'.response = ErrorExplanation(ex'.course_data)
       /\ course_cache' = course_cache
       /\ selected_courses' = selected_courses
       /\ ~ex'.answer_called
       /\ course_last_request_time' = course_last_request_time
       /\ course_conversation_history' = course_conversation_history

\* C16: when the scrape of the course code returns a structure with an
\* error marker, the course handler returns the error explanation, writes
\* nothing to the cache or to selected_courses, makes no gateway call for
\* answer generation and leaves the course agent's last_request_time and
\* conversation_history as they were.
C16_ScrapeErrorStopsResolve == [][C16_Step]_allVars

\* a failed scrape in the turn after an answered one and a cache clear
C16_Witness ==
    /\ CourseCall(rq, ex) /\ ex.scrape_called /\ ex.course_data.error # Absent
    /\ ex.response = ErrorExplanation(ex.course_data)
    /\ ~ex.answer_called
    /\ course_cache = <<>>
    /\ course_last_request_time = StartTime
    /\ Len(course_conversation_history) = 1
    /\ now > course_last_request_time

\* ------------------------------------------------------------------------
\* Properties of the dispatch of execute (checked under Spec)
\* ------------------------------------------------------------------------
\* the decision route_query returned in the step, when it is a JSON object
HasDecision(r) == r.called /\ ~r.res.raised /\ r.res.decision.jtype = "dict"

AgentNameOf(r) == Get(r.res.decision.agent_to_call, Str("none"))

NamesRegistered(r) ==
    /\ HasDecision(r)
    /\ AgentNameOf(r) \in {Str("CourseAgent"), Str("InstructorAgent")}

C17_Step ==
    (IsExecute /\ HasDecision(rq') /\ ~NamesRegistered(rq'))
    => /\ ex'.agent = "none" /\ ~hq'.called
       /\ calls' = calls
       /\ ~ex'.raised
       /\ ex'.response = IF Truthy(rq'.res.decision.direct_response)
                          THEN rq'.res.decision.direct_response
                          ELSE StaticFallback

\* C17: when agent_to_call is "none" or no registered agent name, execute
\* calls no handler, changes no invocation counter and returns
\* direct_response when that is non-empty, and the static fallback string
\* when direct_response is absent, null or empty.
C17_DirectResponseOrFallback == [][C17_Step]_allVars

C18_Step ==
    /\ (IsExecute /\ NamesRegistered(rq'))
         => calls' = [calls EXCEPT ![AgentNameOf(rq')[2][1]] = @ + 1]
    /\ \A a \in DOMAIN calls : calls'[a] >= calls[a]

\* C18: an execute call whose decision names a registered agent adds
\* exactly one to that agent's invocation counter, also when the handler
\* raises, and changes no other counter; no step of execute, clear_cache
\* or clear_history decreases a counter.
C18_CountsEachDispatch == [][C18_Step]_allVars

\* the parameters of the decision make the handler call raise: they are no
\* mapping, or the course code is a truthy value without upper()
HandlerRaises(r) ==
    LET params == r.res.decision.parameters
    IN /\ NamesRegistered(r)
       /\ \/ params.kind \notin {"dict", "absent"}
          \/ /\ params.kind = "dict" /\ AgentNameOf(r) = Str("CourseAgent")
             /\ Truthy(params.course_code) /\ ~IsStr(params.course_code)
             /\ Truthy(Arg(params.question))

\* a turn on the course agent whose handler raised, after a turn on the
\* instructor agent
C18_Witness ==
    /\ ex.called /\ HandlerRaises(rq)
    /\ ex.agent = "CourseAgent"
    /\ calls = [a \in {"CourseAgent", "InstructorAgent"} |->
                    IF a = "CourseAgent" THEN 2 ELSE 1]

C19_Step ==
    (IsExecute /\ HandlerRaises(rq'))
    => /\ ~ex'.raised
       /\ IsStr(ex'.response)
       /\ ex'.response[2][1] = "Error calling "
       /\ Contains(ex'.response, <<AgentNameOf(rq')[2][1]>>)
       /\ conversation_history' =
              conversation_history \o <<UserTurn(ex'.user_query), AssistantTurn(ex'.response)>>
       /\ last_action' = last_action

\* C19: when the handler of the dispatched agent raises (also when the
\* parameters cannot be passed as named parameters), execute returns an
\* error string that names the agent, appends it to the history as the
\* assistant turn and leaves last_action as it was.
C19_HandlerErrorBecomesText == [][C19_Step]_allVars

\* parameters that are a string, in the turn after a call of the instructor
\* agent that went through
C19_Witness ==
    /\ ex.called /\ HandlerRaises(rq)
    /\ rq.res.decision.parameters.kind = "str"
    /\ ex.response = Text(<<"Error calling ", "InstructorAgent", ": ",
                            "argument after ** must be a mapping">>)
    /\ last_action = Text(<<"Called ", "InstructorAgent">>)
    /\ conversation_history[Len(conversation_history)] = AssistantTurn(ex.response)

\* ------------------------------------------------------------------------
\* More properties of the dialogue manager (checked under SpecHandler)
\* ------------------------------------------------------------------------
SuppliesBoth == hq.called /\ Truthy(hq.professor_name) /\ Truthy(hq.university)

\* C20: a handle_query call that supplies a professor name and a
\* university dispatches to analyze_instructor in that call, asks no
\* clarifying question and leaves the three pending fields null, whatever
\* the pending fields held before.
C20_BothSuppliedDispatches ==
    SuppliesBoth =>
        /\ hq.res.dispatched
        /\ hq.res.clarify = "none"
        /\ PendingAllNone

\* both slots supplied while nothing was pending
C20_Witness ==
    /\ SuppliesBoth /\ hq.res.dispatched /\ PendingAllNone
    /\ hq.pre.professor = None /\ hq.pre.university = None /\ ~Truthy(hq.pre.question)
    /\ hq.res.a_professor = hq.professor_name
    /\ hq.res.a_university = hq.university

\* the state in which nothing is pending
Empty == [professor |-> None, university |-> None, question |-> None]

AsksForUniversity(response) ==
    /\ IsStr(response)
    /\ Contains(response, <<"Please provide the university name:">>)
    /\ ~Contains(response, <<"Please provide the professor's full name:">>)
    /\ ~Contains(response, <<"1. The professor's full name">>)

AsksForProfessor(response) ==
    /\ IsStr(response)
    /\ Contains(response, <<"Please provide the professor's full name:">>)
    /\ ~Contains(response, <<"Please provide the university name:">>)
    /\ ~Contains(response, <<"2. The university name">>)

AsksForBoth(response) ==
    /\ IsStr(response)
    /\ Contains(response, <<"1. The professor's full name">>)
    /\ Contains(response, <<"2. The university name">>)

\* C21: from the state in which nothing is pending, a call with a professor
\* name and no university does not dispatch, stores the professor name and
\* the call's question as pending, leaves pending_university null and
\* returns the question that asks for the university only.
C21_ProfessorOnlyAsksUniversity ==
    (hq.called /\ hq.pre = Empty /\ Truthy(hq.professor_name) /\ ~Truthy(hq.university))
    => /\ ~hq.res.dispatched
       /\ pending_professor = hq.professor_name
       /\ pending_question = hq.question
       /\ pending_university = None
       /\ AsksForUniversity(hq.res.response)
       /\ Contains(hq.res.response, hq.professor_name[2])

C21_Witness ==
    /\ hq.called /\ hq.pre = Empty
    /\ hq.professor_name = Str("Andrew Ng") /\ hq.university = EmptyStr
    /\ hq.question = Str("teaching style?")
    /\ pending_professor = Str("Andrew Ng") /\ pending_question = Str("teaching style?")
    /\ hq.res.clarify = "university"

\* C22: from the state in which nothing is pending, a call with a
\* university and no professor name does not dispatch, stores the
\* university and the call's question as pending, leaves pending_professor
\* null and returns the question that asks for the professor only.
C22_UniversityOnlyAsksProfessor ==
    (hq.called /\ hq.pre = Empty /\ Truthy(hq.university) /\ ~Truthy(hq.professor_name))
    => /\ ~hq.res.dispatched
       /\ pending_university = hq.university
       /\ pending_question = hq.question
       /\ pending_professor = None
       /\ AsksForProfessor(hq.res.response)
       /\ Contains(hq.res.response, hq.university[2])

C22_Witness ==
    /\ hq.called /\ hq.pre = Empty
    /\ hq.university = Str("Stanford University") /\ hq.professor_name = None
    /\ hq.question = None
    /\ pending_university = Str("Stanford University") /\ pending_question = None
    /\ hq.res.clarify = "professor"

\* C23: a call that supplies neither professor name nor university while
\* no question is pending does not dispatch, stores the call's question as
\* pending_question, leaves pending_professor and pending_university as
\* they were and returns the question that asks for both slots.
C23_NeitherAsksBoth ==
    (hq.called /\ ~Truthy(hq.pre.question)
        /\ ~Truthy(hq.professor_name) /\ ~Truthy(hq.university))
    => /\ ~hq.res.dispatched
       /\ pending_question = hq.question
       /\ pending_professor = hq.pre.professor
       /\ pending_university = hq.pre.university
       /\ AsksForBoth(hq.res.response)

\* neither slot supplied while a professor is held without a question
C23_Witness ==
    /\ hq.called /\ ~Truthy(hq.pre.question)
    /\ Truthy(hq.pre.professor)
    /\ hq.professor_name = EmptyStr /\ hq.university = None
    /\ hq.question = Str("ratings?")
    /\ pending_question = Str("ratings?")
    /\ pending_professor = hq.pre.professor
    /\ hq.res.clarify = "both"

\* the concrete example values the clarifying questions give
HasExample(response) ==
    \/ Contains(response, <<"Example: \"Dr. John Smith at University of Alberta\"">>)
    \/ Contains(response, <<"Example: \"University of Alberta\" or \"University of Calgary\"">>)

\* C26: each clarifying question names exactly the slots that are still
\* needed and gives at least one concrete example value.
C26_ClarifyNamesSlotsWithExample ==
    (hq.called /\ hq.res.clarify # "none") =>
        /\ hq.res.clarify = "both" => AsksForBoth(hq.res.response)
        /\ hq.res.clarify = "university" => AsksForUniversity(hq.res.response)
        /\ hq.res.clarify = "professor" => AsksForProfessor(hq.res.response)
        /\ HasExample(hq.res.response)

\* ------------------------------------------------------------------------
\* Properties of answer generation (checked under Spec)
\* ------------------------------------------------------------------------
\* C24: in both answer-generation calls (ask of the course flow and
\* analyze_instructor of the instructor flow), when the gateway fails with
\* a message that contains "429" or "quota", the turn returns the fixed
\* wait-and-retry message and not the raw error text.
C24_QuotaFailureGivesRetryMessage ==
    (ex.called /\ ex.answer_called /\ ex.gw = "quota_fault")
    => /\ ex.response = RateLimitMessage
       /\ ~Contains(ex.response, <<GatewayFaultText("quota_fault")>>)

ListsCausesAndInvitesUrl(response) ==
    /\ IsStr(response)
    /\ Contains(response, <<"This could mean:",
                            "- The professor is not listed on RateMyProfessors",
                            "- The professor has no profile or ratings yet",
                            "- The name/university combination doesn't match available profiles">>)
    /\ Contains(response, <<"- The direct RateMyProfessors profile URL if you have it">>)

C25_Step ==
    (IsExecute /\ hq'.called /\ hq'.res.dispatched /\ hq'.scrape = "error_flag")
    => /\ ListsCausesAndInvitesUrl(hq'.res.response)
       /\ ex'.response = hq'.res.response
       /\ ~hq'.res.gateway_called /\ ~ex'.answer_called
       /\ instructor_last_request_time' = instructor_last_request_time

\* C25: when the instructor scrape after a dispatch returns a structure
\* with an error marker, analyze_instructor returns the message that lists
\* the likely causes and invites a direct profile URL, calls no gateway and
\* leaves the instructor agent's last_request_time as it was.
C25_InstructorScrapeError == [][C25_Step]_allVars

\* a failed instructor scrape in the turn after an answered instructor turn
C25_Witness ==
    /\ ex.called /\ hq.called /\ hq.res.dispatched /\ hq.scrape = "error_flag"
    /\ ListsCausesAndInvitesUrl(ex.response)
    /\ instructor_last_request_time = StartTime
    /\ now > instructor_last_request_time
    /\ calls["InstructorAgent"] = 2

\* ------------------------------------------------------------------------
\* Properties of main (checked under SpecCli)
\* ------------------------------------------------------------------------
\* C27: started with the LLM key and without the scraping key, the program
\* comes up with the course agent registered and the instructor agent not
\* registered: the missing scraping key does not prevent start-up.
C27_StartsWithoutScrapingKey ==
    (cli.phase # "start" /\ cli.gemini_key /\ ~cli.firecrawl_key)
    => /\ cli.phase \in {"running", "ended"}
       /\ DOMAIN calls = {"CourseAgent"}

\* C28: the loop ends only on quit, exit or q, or on an interrupt; an
\* exception raised while a line is read or a turn is worked on is caught
\* and shown as an error, and the loop goes on.
C28_LoopEndsOnlyOnQuit ==
    /\ cli.phase = "ended" => cli.input \in {"quit", "exit", "q", "interrupt"}
    /\ (cli.input = "query" /\ ex.called /\ ex.raised)
         => (cli.phase = "running" /\ cli.shown = "error")
    /\ cli.input = "eof" => (cli.phase = "running" /\ cli.shown = "error")

\* a turn in which execute raised, after which the loop still runs
C28_Witness ==
    /\ cli.input = "query" /\ ex.called /\ ex.raised
    /\ cli.phase = "running" /\ cli.shown = "error"
    /\ Len(conversation_history) = 3

\* ------------------------------------------------------------------------
\* Properties of scrape_course_by_code (checked under SpecScrape)
\* ------------------------------------------------------------------------
\* the institution key of the call is a string that, lower-cased, is none
\* of the four configured keys
KeyNotConfigured ==
    /\ IsStr(sc.university)
    /\ LowerFrag(Chars(sc.university)) \notin {"ualberta", "stanford", "mit", "utoronto"}

ListsValidKeys(message) ==
    /\ Contains(message, <<"' not configured. Available: ">>)
    /\ \A key \in {"ualberta", "stanford", "mit", "utoronto"} : Contains(message, <<key>>)

\* C29: scrape_course_by_code with an institution key that is not configured
\* returns an error-flagged structure whose message lists the valid keys,
\* and makes no Scraper Gateway call.
C29_UnknownKeyListsValidKeys ==
    (sc.called /\ KeyNotConfigured)
    => /\ sc.data.error # Absent
       /\ ListsValidKeys(sc.data.error)
       /\ ~sc.firecrawl_called

\* the key "harvard" with a well-formed course code and a Scraper Gateway
\* that would have answered
C29_Witness ==
    /\ sc.called /\ sc.university = Str("harvard")
    /\ sc.course_code = Str("CMPUT 174") /\ sc.scrape = "ok"
    /\ ListsValidKeys(sc.data.error) /\ ~sc.firecrawl_called

\* ------------------------------------------------------------------------
\* Properties of the classification prompt (checked under SpecPrompt)
\* ------------------------------------------------------------------------
\* the step builds a classification prompt
BuildsPrompt == pr'.built /\ allVars' # allVars

\* the number of turns the prompt shows of a log of n turns
Shown(n) == IF n < 6 THEN n ELSE 6

\* C30: the classification prompt built for a query contains exactly the
\* last min(6, n) turns of the conversation history as it stands before the
\* query is appended, in their order in the log, and no older turn.
C30_Step ==
    BuildsPrompt =>
        LET n == Len(conversation_history)
            m == Shown(n)
        IN /\ Len(pr'.history_text) = m
           /\ \A j \in 1..m :
                 pr'.history_text[j].content = Fmt(conversation_history[n - m + j].content)
           /\ pr'.header = (n > 0)
C30_PromptShowsLastSixTurns == [][C30_Step]_allVars

\* a prompt built from a log of eight turns: it starts at the third
C30_Witness ==
    /\ pr.built /\ Len(conversation_history) = 8
    /\ Len(pr.history_text) = 6
    /\ pr.history_text[1].content = <<"turn", "3">>
    /\ pr.history_text[6].content = <<"turn", "8">>

\* ------------------------------------------------------------------------
\* More properties of the dialogue manager (checked under SpecHandler)
\* ------------------------------------------------------------------------
\* C31: with a question pending and pending_professor filled, a call that
\* supplies both another professor name and a university dispatches with
\* the pending professor and the pending question, not with the professor
\* name and the question of the call; the same holds for a filled
\* pending_university and a call that supplies another university.
C31_PendingSlotWins ==
    /\ (/\ hq.called /\ Truthy(hq.pre.question) /\ Truthy(hq.pre.professor)
         /\ Truthy(hq.professor_name) /\ hq.professor_name # hq.pre.professor
         /\ Truthy(hq.university))
        => /\ hq.res.dispatched
           /\ hq.res.a_professor = hq.pre.professor
           /\ hq.res.a_question = hq.pre.question
    /\ (/\ hq.called /\ Truthy(hq.pre.question) /\ Truthy(hq.pre.university)
         /\ Truthy(hq.university) /\ hq.university # hq.pre.university
         /\ Truthy(hq.professor_name))
        => /\ hq.res.dispatched
           /\ hq.res.a_university = hq.pre.university
           /\ hq.res.a_question = hq.pre.question

\* a request for Richard Sutton is pending and the call names Andrew Ng,
\* a university and another question
C31_Witness ==
    /\ hq.called /\ hq.res.dispatched
    /\ hq.pre.professor = Str("Richard Sutton") /\ hq.pre.question = Str("ratings?")
    /\ hq.pre.university = None
    /\ hq.professor_name = Str("Andrew Ng") /\ hq.question = Str("teaching style?")
    /\ hq.university = Str("University of Alberta")
    /\ hq.res.a_professor = Str("Richard Sutton") /\ hq.res.a_question = Str("ratings?")
    /\ hq.res.a_university = Str("University of Alberta")

\* C32: every handle_query call that does not dispatch sets pending_question
\* to the question of that call, whatever was pending and also when that
\* question is null; pending_question changes in no other way than by such
\* a call and by the reset of a dispatch, so the question a dispatch
\* through the pending merge hands to analyze_instructor is the one of the
\* latest call before it that did not dispatch, not the one of the
\* completing call.
C32_Step ==
    /\ (hq'.called /\ ~hq'.res.dispatched) => pending_question' = hq'.question
    /\ (hq'.called /\ hq'.res.dispatched /\ Truthy(pending_question))
         => hq'.res.a_question = pending_question
    /\ (hq'.called /\ hq'.res.dispatched) => pending_question' = None
    /\ ~hq'.called => pending_question' = pending_question
C32_LatestQuestionIsKept == [][C32_Step]_allVars

\* a dispatch through the merge whose completing call asks something else
C32_Witness ==
    /\ hq.called /\ hq.res.dispatched
    /\ hq.pre.professor = Str("Richard Sutton") /\ hq.pre.question = Str("teaching style?")
    /\ hq.professor_name = None /\ hq.university = Str("Stanford University")
    /\ hq.question = Str("ratings?")
    /\ hq.res.a_question = Str("teaching style?")

\* ------------------------------------------------------------------------
\* The dialogue manager under the coordinator (checked under Spec)
\* ------------------------------------------------------------------------
\* the step calls no InstructorAgentHandler.handle_query: a clear, or a turn
\* routed to another agent, answered directly or ended by an exception
NoHandlerCall == ~hq'.called

PendingUnchanged ==
    /\ pending_professor' = pending_professor
    /\ pending_university' = pending_university
    /\ pending_question' = pending_question

\* the turn follows clear_history and supplies the slot that the request
\* left pending before the clear was missing
CompletesAfterClear ==
    /\ cli.input = "clear" /\ hq'.called
    /\ \/ Truthy(pending_professor) /\ ~Truthy(pending_university) /\ Truthy(hq'.university)
       \/ Truthy(pending_university) /\ ~Truthy(pending_professor) /\ Truthy(hq'.professor_name)

C33_Frame == [][NoHandlerCall => PendingUnchanged]_allVars

\* C33: clear_history, clear_cache and the turns that do not reach the
\* dialogue manager leave pending_professor, pending_university and
\* pending_question unchanged, and a request left pending before a clear
\* is dispatched by the later call that supplies its missing slot.
C33_Step ==
    /\ NoHandlerCall => PendingUnchanged
    /\ CompletesAfterClear => hq'.res.dispatched
C33_ClearKeepsPending == [][C33_Step]_allVars

\* ------------------------------------------------------------------------
\* The rate limiter of each component (checked under Spec)
\* ------------------------------------------------------------------------
\* the answer-generation call of the turn is made by this agent
AnswersThrough(agent_name) == ex'.answer_called /\ ex'.agent = agent_name

C34_Step ==
    /\ IsExecute =>
        /\ root_last_request_time > 0
             => ex'.class_at - root_last_request_time >= min_request_interval
        /\ (AnswersThrough("CourseAgent") /\ course_last_request_time > 0)
             => ex'.answer_at - course_last_request_time >= min_request_interval
        /\ (AnswersThrough("InstructorAgent") /\ instructor_last_request_time > 0)
             => ex'.answer_at - instructor_last_request_time >= min_request_interval
    /\ root_last_request_time' >= root_last_request_time
    /\ course_last_request_time' >= course_last_request_time
    /\ instructor_last_request_time' >= instructor_last_request_time

\* C34: within one component (RootAgent, UniversalCourseAgent or
\* InstructorAgent taken alone) two consecutive gateway calls are at least
\* min_request_interval = 12 seconds apart, and the component's
\* last_request_time never decreases.
C34_ComponentCallsSpaced == [][C34_Step]_allVars

\* the second answer of the course agent, made 12 seconds after the first
\* because both of its limiters slept
C34_Witness ==
    /\ ex.called /\ ex.answer_called /\ ex.agent = "CourseAgent"
    /\ Len(course_conversation_history) = 2
    /\ ex.class_at = StartTime + min_request_interval
    /\ ex.answer_at = StartTime + min_request_interval
    /\ course_last_request_time = ex.answer_at

\* ------------------------------------------------------------------------
\* The gateway calls of one turn (checked under Spec)
\* ------------------------------------------------------------------------
\* the answer-generation calls of the turn: the one of the course agent and
\* the one of the instructor agent
AnswerCallsOfTurn ==
    (IF ex'.agent = "CourseAgent" /\ ex'.asked /\ ex'.answer_at # NoTime THEN 1 ELSE 0)
    + (IF hq'.called /\ hq'.res.gateway_called THEN 1 ELSE 0)

\* the turn ends in a clarifying question, a direct response, the message
\* that course_code and question are required, or an error-flagged scrape
EndsWithoutAnswer ==
    \/ hq'.called /\ ~hq'.res.dispatched
    \/ ~ex'.raised /\ ex'.agent = "none"
    \/ ex'.agent = "CourseAgent" /\ ex'.response = RequiredMessage
    \/ ex'.scrape_called /\ ex'.course_data.error # Absent
    \/ hq'.called /\ hq'.scrape = "error_flag"

C35_Step ==
    IsExecute =>
        /\ rq'.called /\ ex'.class_at # NoTime
        /\ pr'.built /\ Len(pr'.history_text) = Shown(Len(conversation_history))
        /\ rq'.res.raised => conversation_history' = conversation_history
        /\ AnswerCallsOfTurn <= 1
        /\ ex'.answer_called <=> AnswerCallsOfTurn = 1
        /\ EndsWithoutAnswer => AnswerCallsOfTurn = 0

\* C35: each execute call makes one classification call, before the user
\* turn is appended to the history, and at most one answer-generation
\* call; a turn that ends in a clarifying question, a direct response, a
\* missing-parameter error or an error-flagged scrape makes no
\* answer-generation call.
C35_OneClassificationOneAnswer == [][C35_Step]_allVars

\* the second turn of a conversation ends in a clarifying question: its
\* classification prompt shows the two entries of the first turn
C35_Witness ==
    /\ ex.called /\ hq.called /\ ~hq.res.dispatched /\ hq.res.clarify = "university"
    /\ ex.class_at # NoTime /\ ~ex.answer_called
    /\ Len(conversation_history) = 4 /\ Len(pr.history_text) = 2

\* ------------------------------------------------------------------------
\* The speaker labels of the classification prompt (checked under Spec)
\* ------------------------------------------------------------------------
\* the label that names a stored role
LabelOf(role) == IF role = "user" THEN "User" ELSE "Assistant"

\* C36: the label of each turn shown in the classification prompt follows
\* from its position in the window of the last six turns (User at the
\* even positions counted from 0, Assistant at the odd ones), and it
\* equals the stored role of that turn in every history the program reaches.
C36_Step ==
    BuildsPrompt =>
        LET n == Len(conversation_history)
            m == Shown(n)
        IN \A j \in 1..m :
             /\ pr'.history_text[j].label = (IF (j - 1) % 2 = 0 THEN "User" ELSE "Assistant")
             /\ pr'.history_text[j].label = LabelOf(conversation_history[n - m + j].role)
C36_LabelsMatchRoles == [][C36_Step]_allVars

\* ------------------------------------------------------------------------
\* The fall-back routing in the interactive program (checked under SpecCli)
\* ------------------------------------------------------------------------
\* the classification of the turn could not be parsed and route_query
\* returned its fall-back decision
FellBack == IsExecute /\ ~rq'.res.raised /\ rq'.res.path = "fallback"

\* C37: with the agents registered as main registers them, a turn whose
\* classification fell back after a parse failure increments the
\* CourseAgent counter by one and returns the fixed message that
\* course_code and question are required; it calls no Scraper Gateway,
\* leaves the cache as it was and makes no answer-generation call.
C37_Step ==
    FellBack =>
        /\ calls' = [calls EXCEPT !["CourseAgent"] = @ + 1]
        /\ ~ex'.raised /\ ex'.response = RequiredMessage
        /\ conversation_history'[Len(conversation_history')] = AssistantTurn(RequiredMessage)
        /\ ~ex'.scrape_called
        /\ course_cache' = course_cache
        /\ ~ex'.asked /\ ~ex'.answer_called /\ ex'.answer_at = NoTime
C37_FallbackAsksForParameters == [][C37_Step]_allVars

\* the classifier answered in prose on the first turn after start-up
C37_Witness ==
    /\ cli.input = "query" /\ cli.shown = "response"
    /\ ex.called /\ rq.res.path = "fallback" /\ rq.cls = GatewayText(<<Prose>>)
    /\ calls = [a \in {"CourseAgent", "InstructorAgent"} |-> IF a = "CourseAgent" THEN 1 ELSE 0]
    /\ ex.response = RequiredMessage
    /\ course_cache = <<>>

\* ------------------------------------------------------------------------
\* The cache and the selected courses (checked under Spec)
\* ------------------------------------------------------------------------
NoDuplicates(seq) == \A i, j \in DOMAIN seq : seq[i] = seq[j] => i = j

\* the step appends this key to selected_courses
Selects(key) ==
    /\ ~InSeq(key, selected_courses)
    /\ InSeq(key, selected_courses')

C38_Step ==
    /\ NoDuplicates(selected_courses')
    /\ \A key \in DOMAIN course_cache' : IsStr(key) /\ Upper(key) = key
    /\ \A i \in DOMAIN selected_courses' :
          Selects(selected_courses'[i])
            => /\ IsExecute
               /\ selected_courses'[i] \notin DOMAIN course_cache
               /\ selected_courses'[i] \in DOMAIN course_cache'
               /\ selected_courses' = Append(selected_courses, selected_courses'[i])
    /\ ClearCache
         => /\ course_cache' = <<>>
            /\ selected_courses' = selected_courses
            /\ conversation_history' = conversation_history
    /\ ClearHistory
         => /\ conversation_history' = <<>>
            /\ selected_courses' = <<>>
            /\ course_cache' = course_cache

\* C38: selected_courses never holds an entry twice and every key of
\* course_cache is upper-case; a key enters selected_courses only in the
\* call that writes it to the cache; clear_cache empties the cache and
\* leaves selected_courses and the history as they were; clear_history
\* empties the history and selected_courses and leaves the cache as it was.
C38_CacheAndSelection == [][C38_Step]_allVars

\* the cache was cleared after CMPUT 174 had been stored and selected
C38_Witness ==
    /\ course_cache = <<>>
    /\ selected_courses = <<Str("CMPUT 174")>>
    /\ Len(conversation_history) = 2
    /\ ~ex.called

\* ------------------------------------------------------------------------
\* The commands of the interactive loop (checked under SpecCli)
\* ------------------------------------------------------------------------
\* the fields of the coordinator
CoordinatorUnchanged ==
    /\ conversation_history' = conversation_history
    /\ calls' = calls
    /\ last_action' = last_action
    /\ selected_courses' = selected_courses
    /\ course_cache' = course_cache
    /\ root_last_request_time' = root_last_request_time

\* the step ran no execute and called no gateway: no routing, no handler,
\* no prompt, no limiter moved and no time spent waiting
NothingRouted ==
    /\ ~ex'.called /\ ~rq'.called /\ ~hq'.called /\ ~pr'.built
    /\ Len(conversation_history') <= Len(conversation_history)
    /\ calls' = calls
    /\ root_last_request_time' = root_last_request_time
    /\ course_last_request_time' = course_last_request_time
    /\ instructor_last_request_time' = instructor_last_request_time
    /\ now' = now

\* the step is a pass of the loop that read one of these lines
LoopReads(lines) == cli.phase = "running" /\ cli'.input \in lines

C39_Step ==
    /\ LoopReads({"help", "agents", "stats", "cache"})
         => (CoordinatorUnchanged /\ NothingRouted)
    /\ LoopReads({"", "clear", "quit", "exit", "q"}) => NothingRouted
    /\ LoopReads({"clear"})
         => /\ conversation_history' = <<>>
            /\ selected_courses' = <<>> /\ last_action' = None
            /\ course_cache' = course_cache
    /\ (ex'.called \/ rq'.called \/ hq'.called \/ pr'.built) => cli'.input = "query"

\* C39: the commands stats, cache, agents and help change no coordinator
\* state; no command, clear included, runs execute, appends to the
\* history, changes an invocation counter or calls a gateway; clear empties
\* the history and the context and leaves the cache; only free-text input
\* is routed through the coordinator.
C39_CommandsAreNotRouted == [][C39_Step]_allVars

\* clear typed after a turn that stored a course in the cache
C39_Witness ==
    /\ cli.input = "clear"
    /\ conversation_history = <<>> /\ selected_courses = <<>>
    /\ DOMAIN course_cache = {Str("CMPUT 174")}
    /\ calls["CourseAgent"] = 1

====
